---- MODULE Spec2Model ----
(***************************************************************************)
(* Model of villa.py: a script that builds a floor plan (floor, walls,     *)
(* windows, doors, furniture, lights, camera) in the host's scene.         *)
(*                                                                         *)
(* Lengths are integers in millimetres (0.15 m = 150).  Every coordinate   *)
(* drawn as an input is an even number of millimetres, so the halvings of  *)
(* the script (midpoints, height/2, wall_thickness/2) are exact.  A length *)
(* sqrt(dx^2 + dy^2) is rounded down to the millimetre; it is exact for    *)
(* axis-aligned segments.  The angle atan2(dy, dx) - pi/2 is kept symbolic *)
(* as the pair (dy, dx) it is computed from.                               *)
(***************************************************************************)
EXTENDS Integers, Sequences, FiniteSets, TLC

VARIABLES
    pc,           \* position in create_floor_plan
    runs,         \* number of times the script has been started
    plan,         \* the plan data: dimensions and the three tables
    objects,      \* bpy.data.objects
    materials,    \* bpy.data.materials (names)
    collections,  \* bpy.data.collections (names)
    mats,         \* the dict returned by create_materials
    created,      \* names of the objects created by the current run, in order
    active,       \* bpy.context.collection
    cursor        \* the scene's 3D cursor (default location of a primitive)

vars == <<pc, runs, plan, objects, materials, collections, mats, created,
          active, cursor>>

----------------------------------------------------------------------------
(* Bounds of the model *)

MaxRuns == 2

MaxGrid == 1

----------------------------------------------------------------------------
(* Program constants, in millimetres *)

PlanWidth == 18000

PlanDepth == 9000

PlanHeight == 2400

PlanWallThickness == 150

InteriorWallThickness == 150

WindowWallThickness == 150

SillHeight == 900

DoorThickness == 50

AngleTolerance == 10

----------------------------------------------------------------------------
(* Arithmetic *)

Abs(x) == IF x < 0 THEN -x ELSE x

\* x / 2
Half(x) == x \div 2

RECURSIVE SqrtBetween(_, _, _)
SqrtBetween(n, lo, hi) ==
    IF lo >= hi THEN lo
    ELSE LET mid == (lo + hi + 1) \div 2
         IN  IF mid * mid <= n THEN SqrtBetween(n, mid, hi)
                               ELSE SqrtBetween(n, lo, mid - 1)

\* n ** 0.5, rounded down
Sqrt(n) == SqrtBetween(n, 0, 46340)

\* ((end[0] - start[0])**2 + (end[1] - start[1])**2)**0.5
WallLength(start, end) ==
    Sqrt((end[1] - start[1]) * (end[1] - start[1])
         + (end[2] - start[2]) * (end[2] - start[2]))

\* rotation_euler.z left at its default
NoRotation == [rotated |-> FALSE, dy |-> 0, dx |-> 0]

\* math.atan2(dy, dx) - math.pi/2, kept symbolic
WallAngle(dy, dx) == [rotated |-> TRUE, dy |-> dy, dx |-> dx]

----------------------------------------------------------------------------
(* Names of data-blocks: f"{base}_{idx}" (idx = 0: no index), with the     *)
(* host's ".001" suffix counted in dup when the name was already taken.    *)

Name(base, idx) == [base |-> base, idx |-> idx, dup |-> 0]

NoName == Name("", 0)

\* the name a data-block gets when `wanted` is assigned and `taken` exist
UniqueName(wanted, taken) ==
    LET free(k) == [wanted EXCEPT !.dup = k] \notin taken
        k == CHOOSE j \in 0..Cardinality(taken) :
                 free(j) /\ \A i \in 0..(j - 1) : ~free(i)
    IN  [wanted EXCEPT !.dup = k]

Range(s) == {s[i] : i \in 1..Len(s)}

----------------------------------------------------------------------------
(* The plan data of the script *)

Segment(start, end, height) == [start |-> start, end |-> end, height |-> height]

Opening(pos, width, height, rotate) ==
    [pos |-> pos, width |-> width, height |-> height, rotate |-> rotate]

\* interior_walls, create_interior_walls
InteriorWallsTable ==
    << Segment(<<6000, 0>>, <<6000, 9000>>, 2400),
       Segment(<<9000, 9000>>, <<18000, 9000>>, 2400),
       Segment(<<9000, 0>>, <<9000, 9000>>, 2400),
       Segment(<<12000, 5000>>, <<18000, 5000>>, 2400),
       Segment(<<15000, 5000>>, <<15000, 9000>>, 2400) >>

\* windows, create_windows (window_data.get("rotate", False))
WindowsTable ==
    << Opening(<<1500, 0>>, 1200, 1400, FALSE),
       Opening(<<4500, 0>>, 1200, 1400, FALSE),
       Opening(<<13500, 0>>, 1200, 1400, FALSE),
       Opening(<<16500, 0>>, 1200, 1400, FALSE),
       Opening(<<0, 3000>>, 1200, 1400, TRUE),
       Opening(<<18000, 7000>>, 1200, 1400, TRUE) >>

\* doors, create_doors
DoorsTable ==
    << Opening(<<9000, 2000>>, 900, 2100, FALSE),
       Opening(<<9000, 6000>>, 900, 2100, FALSE),
       Opening(<<12000, 6000>>, 900, 2100, FALSE),
       Opening(<<12000, 8000>>, 900, 2100, TRUE),
       Opening(<<15000, 7000>>, 900, 2100, FALSE),
       Opening(<<9000, 500>>, 1200, 2100, TRUE) >>

Furniture(base, location, scale, material) ==
    [base |-> base, location |-> location, scale |-> scale, material |-> material]

\* the nine pieces of create_furniture, in the order they are appended
FurnitureTable ==
    << Furniture("Sofa", <<3000, 6000, 400>>, <<2500, 900, 800>>, "fabric"),
       Furniture("CoffeeTable", <<5000, 6000, 250>>, <<1200, 800, 500>>, "wood"),
       Furniture("DiningTable", <<5000, 3000, 400>>, <<1800, 1000, 800>>, "wood"),
       Furniture("KitchenCounter", <<14000, 8000, 450>>, <<2000, 600, 900>>, "kitchen"),
       Furniture("Bed1", <<3000, 2000, 300>>, <<2000, 1400, 600>>, "fabric"),
       Furniture("Bed2", <<3000, 7000, 300>>, <<2000, 1400, 600>>, "fabric"),
       Furniture("Bed3", <<16500, 7000, 300>>, <<2000, 1400, 600>>, "fabric"),
       Furniture("Toilet", <<14000, 3500, 200>>, <<600, 400, 400>>, "wall"),
       Furniture("Shower", <<13000, 2000, 100>>, <<1000, 1000, 200>>, "wall") >>

\* the plan create_floor_plan builds
SourcePlan ==
    [width |-> PlanWidth, depth |-> PlanDepth, height |-> PlanHeight,
     wall_thickness |-> PlanWallThickness,
     interior_walls |-> InteriorWallsTable,
     windows |-> WindowsTable,
     doors |-> DoorsTable]

----------------------------------------------------------------------------
(* The scene.  A world W is the script's view of the host's data:          *)
(* [objects, materials, collections, mats, created].  An object is a       *)
(* record [name, kind, idx, location, extents, rotation, material,         *)
(* collections, hide]; kind and idx say which loop iteration created it.   *)

World == [objects |-> objects, materials |-> materials,
          collections |-> collections, mats |-> mats, created |-> created]

Tags == {"wall", "floor", "glass", "wood", "fabric", "kitchen"}

NoMats == [t \in Tags |-> NoName]

NamesOf(W) == {o.name : o \in W.objects}

Obj(W, n) == CHOOSE o \in W.objects : o.name = n

\* bpy.ops.mesh.primitive_*_add / light_add / camera_add followed by the
\* assignments to name, scale, rotation_euler and data.materials: the new
\* object is linked to the active collection and its name is made unique.
AddObject(W, wanted, kind, idx, location, extents, rotation, material) ==
    LET o == [name |-> UniqueName(wanted, NamesOf(W)), kind |-> kind, idx |-> idx,
              location |-> location, extents |-> extents, rotation |-> rotation,
              material |-> material, collections |-> {active}, hide |-> FALSE]
    IN  [W EXCEPT !.objects = @ \cup {o}, !.created = Append(@, o.name)]

\* the object most recently created: bpy.context.active_object
LastCreated(W) == W.created[Len(W.created)]

\* move_to_collection(obj, collection_name)
MoveToCollection(W, n, collection_name) ==
    LET o == Obj(W, n)
        \* make sure the collection exists
        cs == W.collections \cup {collection_name}
        \* link the object to the target collection
        linked == IF collection_name \notin o.collections
                  THEN o.collections \cup {collection_name}
                  ELSE o.collections
        \* unlink from bpy.context.collection
        unlinked == IF active \in linked THEN linked \ {active} ELSE linked
    IN  [W EXCEPT !.collections = cs,
                  !.objects = (@ \ {o}) \cup {[o EXCEPT !.collections = unlinked]}]

\* select_all(action='SELECT') selects the objects of the view layer that
\* are not hidden; an object linked to no collection is not in the view layer
Selected(o) == ~o.hide /\ o.collections # {}

\* clear_scene()
ClearScene(W) ==
    [W EXCEPT
        \* bpy.ops.object.delete() removes the selected objects; removing every
        \* material empties the material slot of the objects that stay
        !.objects = {[o EXCEPT !.material = NoName] : o \in {x \in @ : ~Selected(x)}},
        !.collections = @ \cup {"FloorPlan"},
        !.materials = {}]

\* bpy.data.materials.new(name=...)
NewMaterial(W, tag, base) ==
    LET n == UniqueName(Name(base, 0), W.materials)
    IN  [W EXCEPT !.materials = @ \cup {n}, !.mats = [@ EXCEPT ![tag] = n]]

\* create_materials()
CreateMaterials(W) ==
    NewMaterial(NewMaterial(NewMaterial(NewMaterial(NewMaterial(NewMaterial(
        W, "wall", "WallMaterial"), "floor", "FloorMaterial"),
        "glass", "GlassMaterial"), "wood", "WoodMaterial"),
        "fabric", "FabricMaterial"), "kitchen", "KitchenMaterial")

\* create_floor(width, depth, materials): the plane is added at the 3D
\* cursor, only location.z is assigned
CreateFloor(W, width, depth) ==
    LET W1 == AddObject(W, Name("Floor", 0), "Floor", 1,
                        <<cursor[1], cursor[2], 0>>, <<width, depth, 0>>,
                        NoRotation, W.mats["floor"])
    IN  MoveToCollection(W1, LastCreated(W1), "FloorPlan")

\* wall_vertices of create_walls, indexed from 0 as in the script
WallVertex(i, width, depth) ==
    CASE i = 0 -> <<0, 0>>
      [] i = 1 -> <<width, 0>>
      [] i = 2 -> <<width, depth>>
      [] i = 3 -> <<0, depth>>

\* the parity test inverted
OuterWallIsHorizontalOdd(i) == i % 2 = 1

\* if i % 2 == 0:  # Horizontal walls
OuterWallIsHorizontal(i) == i % 2 = 0

\* wall.scale of a wall that is horizontal or not
WallExtents(horizontal, wall_length, wall_thickness, height) ==
    IF horizontal THEN <<wall_length, wall_thickness, height>>
                  ELSE <<wall_thickness, wall_length, height>>

\* (wall_center_x, wall_center_y, height/2)
WallCenter(start, end, height) ==
    <<Half(start[1] + end[1]), Half(start[2] + end[2]), Half(height)>>

\* one iteration of the loop of create_walls
OuterWall(W, i, width, depth, height, wall_thickness) ==
    LET start == WallVertex(i, width, depth)
        end == WallVertex((i + 1) % 4, width, depth)
        W1 == AddObject(W, Name("Wall", i + 1), "Wall", i + 1,
                        WallCenter(start, end, height),
                        WallExtents(OuterWallIsHorizontal(i), WallLength(start, end),
                                    wall_thickness, height),
                        NoRotation, W.mats["wall"])
    IN  MoveToCollection(W1, LastCreated(W1), "FloorPlan")

RECURSIVE OuterWallsFrom(_, _, _, _, _, _)
OuterWallsFrom(W, i, width, depth, height, wall_thickness) ==
    IF i >= 4 THEN W
    ELSE OuterWallsFrom(OuterWall(W, i, width, depth, height, wall_thickness),
                        i + 1, width, depth, height, wall_thickness)

\* create_walls(width, depth, height, wall_thickness, materials)
CreateWalls(W, width, depth, height, wall_thickness) ==
    OuterWallsFrom(W, 0, width, depth, height, wall_thickness)

\* the comparison made with <= in place of <
IsHorizontalOrTie(start, end) == Abs(end[2] - start[2]) <= Abs(end[1] - start[1])

\* is_horizontal = abs(end[1] - start[1]) < abs(end[0] - start[0])
IsHorizontal(start, end) == Abs(end[2] - start[2]) < Abs(end[1] - start[1])

\* the tolerance of 0.01 taken as 0.001
IsAngledFromOne(start, end) ==
    ~IsHorizontal(start, end) /\ ~(Abs(end[1] - start[1]) < 1)

\* not is_horizontal and not abs(end[0] - start[0]) < 0.01
IsAngled(start, end) ==
    ~IsHorizontal(start, end) /\ ~(Abs(end[1] - start[1]) < AngleTolerance)

\* wall.rotation_euler.z
InteriorWallRotation(start, end) ==
    IF IsAngled(start, end)
    THEN WallAngle(end[2] - start[2], end[1] - start[1])
    ELSE NoRotation

\* one iteration of the loop of create_interior_walls (i counts from 0)
InteriorWall(W, i, wall_data) ==
    LET start == wall_data.start
        end == wall_data.end
        height == wall_data.height
        W1 == AddObject(W, Name("InteriorWall", i + 1), "InteriorWall", i + 1,
                        WallCenter(start, end, height),
                        WallExtents(IsHorizontal(start, end), WallLength(start, end),
                                    InteriorWallThickness, height),
                        InteriorWallRotation(start, end), W.mats["wall"])
    IN  MoveToCollection(W1, LastCreated(W1), "FloorPlan")

RECURSIVE InteriorWallsFrom(_, _, _)
InteriorWallsFrom(W, i, interior_walls) ==
    IF i >= Len(interior_walls) THEN W
    ELSE InteriorWallsFrom(InteriorWall(W, i, interior_walls[i + 1]),
                           i + 1, interior_walls)

\* create_interior_walls(materials), over its table
CreateInteriorWalls(W, interior_walls) == InteriorWallsFrom(W, 0, interior_walls)

\* the location without the offset of a rotated window
WindowLocationUnmoved(pos, height, rotate) ==
    <<pos[1], pos[2], SillHeight + Half(height)>>

\* location of a window
WindowLocation(pos, height, rotate) ==
    << pos[1],
       IF ~rotate THEN pos[2] ELSE pos[2] + Half(WindowWallThickness),
       SillHeight + Half(height) >>

\* window.scale
WindowExtents(width, height, rotate) ==
    IF rotate THEN <<WindowWallThickness, width, height>>
              ELSE <<width, WindowWallThickness, height>>

\* one iteration of the loop of create_windows
Window(W, i, window_data) ==
    LET W1 == AddObject(W, Name("Window", i + 1), "Window", i + 1,
                        WindowLocation(window_data.pos, window_data.height,
                                       window_data.rotate),
                        WindowExtents(window_data.width, window_data.height,
                                      window_data.rotate),
                        NoRotation, W.mats["glass"])
    IN  MoveToCollection(W1, LastCreated(W1), "FloorPlan")

RECURSIVE WindowsFrom(_, _, _)
WindowsFrom(W, i, windows) ==
    IF i >= Len(windows) THEN W
    ELSE WindowsFrom(Window(W, i, windows[i + 1]), i + 1, windows)

\* create_windows(materials), over its table
CreateWindows(W, windows) == WindowsFrom(W, 0, windows)

\* location of a door
DoorLocation(pos, height) == <<pos[1], pos[2], Half(height)>>

\* door.scale
DoorExtents(width, height, rotate) ==
    IF rotate THEN <<width, DoorThickness, height>>
              ELSE <<DoorThickness, width, height>>

\* one iteration of the loop of create_doors
Door(W, i, door_data) ==
    LET W1 == AddObject(W, Name("Door", i + 1), "Door", i + 1,
                        DoorLocation(door_data.pos, door_data.height),
                        DoorExtents(door_data.width, door_data.height,
                                    door_data.rotate),
                        NoRotation, W.mats["wood"])
    IN  MoveToCollection(W1, LastCreated(W1), "FloorPlan")

RECURSIVE DoorsFrom(_, _, _)
DoorsFrom(W, i, doors) ==
    IF i >= Len(doors) THEN W
    ELSE DoorsFrom(Door(W, i, doors[i + 1]), i + 1, doors)

\* create_doors(materials), over its table
CreateDoors(W, doors) == DoorsFrom(W, 0, doors)

\* the cubes of create_furniture are all added first ...
RECURSIVE FurnitureAddFrom(_, _)
FurnitureAddFrom(W, i) ==
    IF i > Len(FurnitureTable) THEN W
    ELSE LET f == FurnitureTable[i]
         IN  FurnitureAddFrom(
                 AddObject(W, Name(f.base, 0), "Furniture", i, f.location, f.scale,
                           NoRotation, W.mats[f.material]),
                 i + 1)

\* ... and then moved: for obj in furniture: move_to_collection(obj, "FloorPlan")
RECURSIVE FurnitureMoveFrom(_, _, _)
FurnitureMoveFrom(W, furniture, i) ==
    IF i > Len(furniture) THEN W
    ELSE FurnitureMoveFrom(MoveToCollection(W, furniture[i], "FloorPlan"),
                           furniture, i + 1)

\* create_furniture(materials)
CreateFurniture(W) ==
    LET W1 == FurnitureAddFrom(W, 1)
        furniture == SubSeq(W1.created, Len(W.created) + 1, Len(W1.created))
    IN  FurnitureMoveFrom(W1, furniture, 1)

\* create_lighting(): both lights are added, then both are moved
CreateLighting(W) ==
    LET W1 == AddObject(W, Name("Sun", 0), "Light", 1, <<5000, 5000, 10000>>,
                        <<1000, 1000, 1000>>, NoRotation, NoName)
        sun == LastCreated(W1)
        W2 == AddObject(W1, Name("AmbientLight", 0), "Light", 2, <<9000, 5000, 5000>>,
                        <<18000, 9000, 1000>>, NoRotation, NoName)
        ambient == LastCreated(W2)
    IN  MoveToCollection(MoveToCollection(W2, sun, "FloorPlan"), ambient, "FloorPlan")

\* create_camera() (the tilt of 55 degrees is about X: no rotation about Z)
CreateCamera(W) ==
    LET W1 == AddObject(W, Name("FloorPlanCamera", 0), "Camera", 1,
                        <<9000, -10000, 15000>>, <<1000, 1000, 1000>>,
                        NoRotation, NoName)
    IN  MoveToCollection(W1, LastCreated(W1), "FloorPlan")

\* create_floor_plan() as one function of the world it starts in
CreateFloorPlan(W, p) ==
    LET W0 == ClearScene([W EXCEPT !.mats = NoMats, !.created = <<>>])
        W1 == CreateMaterials(W0)
        W2 == CreateFloor(W1, p.width, p.depth)
        W3 == CreateWalls(W2, p.width, p.depth, p.height, p.wall_thickness)
        W4 == CreateInteriorWalls(W3, p.interior_walls)
        W5 == CreateWindows(W4, p.windows)
        W6 == CreateDoors(W5, p.doors)
        W7 == CreateFurniture(W6)
        W8 == CreateLighting(W7)
    IN  CreateCamera(W8)

----------------------------------------------------------------------------
(* Inputs: the plans the functions are run on, and the scenes the script   *)
(* is started in.                                                          *)

GridCoords == {6000 * k : k \in 0..MaxGrid}

\* with two coordinates a few millimetres off the grid, for nearly
\* vertical and very short segments
FineCoords == GridCoords \cup {6, 10}

Segments ==
    {Segment(s, e, PlanHeight) : s \in GridCoords \X GridCoords,
                                 e \in FineCoords \X FineCoords}

Openings ==
    {Opening(p, 800, h, r) : p \in GridCoords \X GridCoords,
                             h \in {1400, 2100}, r \in BOOLEAN}

\* the plan of the script, and the plans that differ from it in the
\* dimensions or in one of the tables
Plans ==
    {SourcePlan}
    \cup {[SourcePlan EXCEPT !.width = w, !.depth = d] :
             w \in GridCoords, d \in GridCoords}
    \cup {[SourcePlan EXCEPT !.interior_walls = <<s>>] : s \in Segments}
    \cup {[SourcePlan EXCEPT !.windows = <<o>>] : o \in Openings}
    \cup {[SourcePlan EXCEPT !.doors = <<o>>] : o \in Openings}

\* an object the scene holds before the script runs
Existing(base, material, hide) ==
    [name |-> Name(base, 0), kind |-> "Existing", idx |-> 0,
     location |-> <<0, 0, 0>>, extents |-> <<2000, 2000, 2000>>,
     rotation |-> NoRotation, material |-> material,
     collections |-> {"Collection"}, hide |-> hide]

\* the scenes the script is started in: empty, the start-up scene with its
\* cube, and a scene with a hidden object called Floor
Scenes ==
    { [objects |-> {}, materials |-> {}],
      [objects |-> {Existing("Cube", Name("Material", 0), FALSE)},
       materials |-> {Name("Material", 0)}],
      [objects |-> {Existing("Floor", Name("WallMaterial", 0), TRUE)},
       materials |-> {Name("WallMaterial", 0)}] }

Cursors == {<<0, 0, 0>>, <<2000, 1000, 500>>}

----------------------------------------------------------------------------
(* create_floor_plan, one step per call *)

\* the doors created before the windows
NextStageDoorsFirst(stage) ==
    CASE stage = "clear" -> "materials"
      [] stage = "materials" -> "floor"
      [] stage = "floor" -> "walls"
      [] stage = "walls" -> "interior"
      [] stage = "interior" -> "doors"
      [] stage = "doors" -> "windows"
      [] stage = "windows" -> "furniture"
      [] stage = "furniture" -> "lighting"
      [] stage = "lighting" -> "camera"
      [] stage = "camera" -> "shading"
      [] stage = "shading" -> "done"

\* the statement after `stage` in create_floor_plan
NextStage(stage) ==
    CASE stage = "clear" -> "materials"
      [] stage = "materials" -> "floor"
      [] stage = "floor" -> "walls"
      [] stage = "walls" -> "interior"
      [] stage = "interior" -> "windows"
      [] stage = "windows" -> "doors"
      [] stage = "doors" -> "furniture"
      [] stage = "furniture" -> "lighting"
      [] stage = "lighting" -> "camera"
      [] stage = "camera" -> "shading"
      [] stage = "shading" -> "done"

Init ==
    /\ pc = "clear"
    /\ runs = 1
    /\ plan \in Plans
    /\ \E s \in Scenes : objects = s.objects /\ materials = s.materials
    /\ \E a \in {"Collection", "FloorPlan"} :
           active = a /\ collections = {"Collection", a}
    /\ mats = NoMats
    /\ created = <<>>
    /\ cursor \in Cursors

\* the call at `stage` leaves the world W
Step(stage, W) ==
    /\ pc = stage
    /\ pc' = NextStage(stage)
    /\ objects' = W.objects
    /\ materials' = W.materials
    /\ collections' = W.collections
    /\ mats' = W.mats
    /\ created' = W.created
    /\ UNCHANGED <<runs, plan, active, cursor>>

DoClearScene == Step("clear", ClearScene(World))

DoCreateMaterials == Step("materials", CreateMaterials(World))

DoCreateFloor == Step("floor", CreateFloor(World, plan.width, plan.depth))

DoCreateWalls ==
    Step("walls", CreateWalls(World, plan.width, plan.depth, plan.height,
                              plan.wall_thickness))

DoCreateInteriorWalls ==
    Step("interior", CreateInteriorWalls(World, plan.interior_walls))

DoCreateWindows == Step("windows", CreateWindows(World, plan.windows))

DoCreateDoors == Step("doors", CreateDoors(World, plan.doors))

DoCreateFurniture == Step("furniture", CreateFurniture(World))

DoCreateLighting == Step("lighting", CreateLighting(World))

DoCreateCamera == Step("camera", CreateCamera(World))

\* the viewport shading and the final print change nothing of the scene
DoSetShading == Step("shading", World)

\* the script is run again on the scene it left
RunAgain ==
    /\ pc = "done"
    /\ runs < MaxRuns
    /\ pc' = "clear"
    /\ runs' = runs + 1
    /\ mats' = NoMats
    /\ created' = <<>>
    /\ UNCHANGED <<plan, objects, materials, collections, active, cursor>>

Next ==
    \/ DoClearScene
    \/ DoCreateMaterials
    \/ DoCreateFloor
    \/ DoCreateWalls
    \/ DoCreateInteriorWalls
    \/ DoCreateWindows
    \/ DoCreateDoors
    \/ DoCreateFurniture
    \/ DoCreateLighting
    \/ DoCreateCamera
    \/ DoSetShading
    \/ RunAgain

Spec == Init /\ [][Next]_vars

----------------------------------------------------------------------------
(* Vocabulary of the properties *)

Stages == << "clear", "materials", "floor", "walls", "interior", "windows",
             "doors", "furniture", "lighting", "camera", "shading", "done" >>

StageIndex(stage) == CHOOSE k \in 1..Len(Stages) : Stages[k] = stage

\* the call at `stage` has returned in the current run
Passed(stage) == StageIndex(pc) > StageIndex(stage)

\* the objects the current run has created
CreatedObjects == {o \in objects : o.name \in Range(created)}

\* the objects the current run created in iteration i of the loop of `kind`
Emitted(kind, i) == {o \in CreatedObjects : o.kind = kind /\ o.idx = i}

\* what the scene shows of an object: name, place, size, rotation, material
Descriptor(o) ==
    [name |-> o.name, kind |-> o.kind, center |-> o.location,
     extents |-> o.extents, rotationZ |-> o.rotation, material |-> o.material]

Descriptors(W) == [k \in 1..Len(W.created) |-> Descriptor(Obj(W, W.created[k]))]

Dx(seg) == seg.end[1] - seg.start[1]

Dy(seg) == seg.end[2] - seg.start[2]

Distance(seg) == Sqrt(Dx(seg) * Dx(seg) + Dy(seg) * Dy(seg))

Midpoint(seg, height) ==
    <<(seg.start[1] + seg.end[1]) \div 2, (seg.start[2] + seg.end[2]) \div 2,
      height \div 2>>

\* the segment of outer wall i (1..4): corner i to the next corner
OuterSegment(i) ==
    LET corners == << <<0, 0>>, <<plan.width, 0>>, <<plan.width, plan.depth>>,
                      <<0, plan.depth>> >>
    IN  Segment(corners[i], corners[(i % 4) + 1], plan.height)

\* shorter than 1e-6 m, that is than a thousandth of a millimetre
Degenerate(seg) == Distance(seg) * 1000 < 1

\* extents by the geometric test |dy| < |dx|
GeometricExtents(seg, thickness) ==
    IF Abs(Dy(seg)) < Abs(Dx(seg))
    THEN <<Distance(seg), thickness, seg.height>>
    ELSE <<thickness, Distance(seg), seg.height>>

----------------------------------------------------------------------------
(* C1: every door box is centred at (pos.x, pos.y, height/2), without a    *)
(* nudge in Y, and is thin in X and long in Y, (0.05, width, height), when *)
(* its rotate flag is true, and long in X and thin in Y, (width, 0.05,     *)
(* height), when the flag is false.                                        *)
C1_DoorBoxes ==
    Passed("doors") =>
        \A i \in 1..Len(plan.doors) :
            LET d == plan.doors[i]
            IN  \E o \in Emitted("Door", i) :
                    /\ o.location = <<d.pos[1], d.pos[2], d.height \div 2>>
                    /\ o.extents = IF d.rotate THEN <<50, d.width, d.height>>
                                               ELSE <<d.width, 50, d.height>>

(* C2: no wall box is emitted for a segment shorter than 1e-6 m, and no    *)
(* wall box, outer or interior, has a zero extent.                         *)
C2_NoDegenerateWall ==
    \A o \in CreatedObjects :
        /\ o.kind = "Wall" => ~Degenerate(OuterSegment(o.idx))
        /\ o.kind = "InteriorWall" => ~Degenerate(plan.interior_walls[o.idx])
        /\ o.kind \in {"Wall", "InteriorWall"} =>
               \A k \in 1..3 : o.extents[k] > 0

(* C3: every wall with start # end is a box centred at (midpoint.x,        *)
(* midpoint.y, height/2) whose extents follow the geometric test           *)
(* |dy| < |dx|: (length, thickness, height) when it holds, (thickness,     *)
(* length, height) otherwise.  For the outer walls of a plan with          *)
(* width > 0 and depth > 0, built by index parity, wall 1 is (width,       *)
(* thickness, height) at (width/2, 0, height/2) and wall 2 is (thickness,  *)
(* depth, height) at (width, depth/2, height/2).                           *)
C3_WallBoxes ==
    /\ Passed("walls") =>
           \A i \in 1..4 :
               LET seg == OuterSegment(i)
               IN  seg.start # seg.end =>
                       \E o \in Emitted("Wall", i) :
                           /\ o.location = Midpoint(seg, plan.height)
                           /\ o.extents = GeometricExtents(seg, plan.wall_thickness)
    /\ Passed("walls") /\ plan.width > 0 /\ plan.depth > 0 =>
           /\ \E o \in Emitted("Wall", 1) :
                  /\ o.extents = <<plan.width, plan.wall_thickness, plan.height>>
                  /\ o.location = <<plan.width \div 2, 0, plan.height \div 2>>
           /\ \E o \in Emitted("Wall", 2) :
                  /\ o.extents = <<plan.wall_thickness, plan.depth, plan.height>>
                  /\ o.location = <<plan.width, plan.depth \div 2, plan.height \div 2>>
    /\ Passed("interior") =>
           \A i \in 1..Len(plan.interior_walls) :
               LET seg == plan.interior_walls[i]
               IN  seg.start # seg.end =>
                       \E o \in Emitted("InteriorWall", i) :
                           /\ o.location = Midpoint(seg, seg.height)
                           /\ o.extents = GeometricExtents(seg, 150)

\* outer and interior walls are built, some along X and some along Y
C3_Witness ==
    /\ Passed("interior")
    /\ plan.width > 0 /\ plan.depth > 0
    /\ \E i, j \in 1..Len(plan.interior_walls) :
           LET a == plan.interior_walls[i]
               b == plan.interior_walls[j]
           IN  /\ Abs(Dy(a)) < Abs(Dx(a))
               /\ ~(Abs(Dy(b)) < Abs(Dx(b))) /\ b.start # b.end
    /\ Cardinality({o \in CreatedObjects : o.kind \in {"Wall", "InteriorWall"}})
           = 4 + Len(plan.interior_walls)

(* C4: every window box has centre z = sillHeight + height/2 and no        *)
(* rotation; with the flag false its extents are (width, wallThickness,    *)
(* height) at (pos.x, pos.y); with the flag true they are (wallThickness,  *)
(* width, height) at (pos.x, pos.y + wallThickness/2).                     *)
C4_WindowBoxes ==
    Passed("windows") =>
        \A i \in 1..Len(plan.windows) :
            LET w == plan.windows[i]
            IN  \E o \in Emitted("Window", i) :
                    /\ o.location[3] = 900 + w.height \div 2
                    /\ o.rotation = NoRotation
                    /\ ~w.rotate =>
                           /\ o.extents = <<w.width, 150, w.height>>
                           /\ o.location[1] = w.pos[1]
                           /\ o.location[2] = w.pos[2]
                    /\ w.rotate =>
                           /\ o.extents = <<150, w.width, w.height>>
                           /\ o.location[1] = w.pos[1]
                           /\ o.location[2] = w.pos[2] + 75

\* windows of both orientations have been built
C4_Witness ==
    /\ Passed("windows")
    /\ \E i, j \in 1..Len(plan.windows) :
           plan.windows[i].rotate /\ ~plan.windows[j].rotate
    /\ \A i \in 1..Len(plan.windows) : Emitted("Window", i) # {}

----------------------------------------------------------------------------
\* the loops in the order of the claim, with the number of elements of each
GroupOrder ==
    << <<"Floor", 1>>, <<"Wall", 4>>,
       <<"InteriorWall", Len(plan.interior_walls)>>,
       <<"Window", Len(plan.windows)>>, <<"Door", Len(plan.doors)>>,
       <<"Furniture", Len(FurnitureTable)>>, <<"Light", 2>>, <<"Camera", 1>> >>

\* the elements of the first g groups, each group in the order of its table
RECURSIVE ExpectedOrder(_)
ExpectedOrder(g) ==
    IF g = 0 THEN <<>>
    ELSE ExpectedOrder(g - 1)
         \o [i \in 1..GroupOrder[g][2] |-> <<GroupOrder[g][1], i>>]

(* C5: the elements are created in the order floor, outer walls, interior  *)
(* walls, windows, doors, furniture, lights, camera, each group complete   *)
(* before the next begins and in the order of its table: what has been     *)
(* created is always a prefix of that one sequence.                        *)
C5_CreationOrder ==
    LET expected == ExpectedOrder(Len(GroupOrder))
    IN  /\ Len(created) <= Len(expected)
        /\ \A k \in 1..Len(created) :
               LET o == Obj(World, created[k])
               IN  <<o.kind, o.idx>> = expected[k]
        /\ pc = "done" => Len(created) = Len(expected)

\* a run has ended and has created every element of the plan
C5_Witness ==
    /\ pc = "done"
    /\ Len(created) = 17 + Len(plan.interior_walls) + Len(plan.windows)
                         + Len(plan.doors)
    /\ Len(plan.interior_walls) > 1

\* the scene with nothing in it
EmptyWorld ==
    [objects |-> {}, materials |-> {}, collections |-> {"Collection", active},
     mats |-> NoMats, created |-> <<>>]

(* C6: whatever the scene the script starts in (a scene with objects and   *)
(* materials, or the scene an earlier run left), a run ends with the       *)
(* descriptors, in order, of a run on the empty scene.                     *)
C6_Idempotent ==
    pc = "done" => Descriptors(World) = Descriptors(CreateFloorPlan(EmptyWorld, plan))

\* an interior wall whose |dy| equals its |dx|
Tie(seg) == Abs(Dy(seg)) = Abs(Dx(seg)) /\ seg.start # seg.end

(* C7, as claimed: an interior wall with |dy| = |dx| is horizontal, with   *)
(* extents (length, thickness, height) and rotation 0.                     *)
C7_TieIsHorizontal ==
    Passed("interior") =>
        \A i \in 1..Len(plan.interior_walls) :
            LET seg == plan.interior_walls[i]
            IN  Tie(seg) =>
                    \E o \in Emitted("InteriorWall", i) :
                        /\ o.extents = <<Distance(seg), 150, seg.height>>
                        /\ o.rotation = NoRotation

(* C7, amended: an interior wall with |dy| = |dx| is not horizontal: its   *)
(* extents are (thickness, length, height), and it is rotated by           *)
(* atan2(dy, dx) - pi/2 when |dx| >= 0.01 m and not rotated otherwise.     *)
C7_TieIsNotHorizontal ==
    Passed("interior") =>
        \A i \in 1..Len(plan.interior_walls) :
            LET seg == plan.interior_walls[i]
            IN  Tie(seg) =>
                    \E o \in Emitted("InteriorWall", i) :
                        /\ o.extents = <<150, Distance(seg), seg.height>>
                        /\ o.rotation = IF Abs(Dx(seg)) >= 10
                                        THEN [rotated |-> TRUE, dy |-> Dy(seg),
                                              dx |-> Dx(seg)]
                                        ELSE NoRotation

\* a wall at 45 degrees has been built
C7_Witness ==
    /\ Passed("interior")
    /\ \E i \in 1..Len(plan.interior_walls) :
           /\ Tie(plan.interior_walls[i])
           /\ Emitted("InteriorWall", i) # {}

\* the rotation of an interior wall that is rotated exactly when it is not
\* horizontal and `angled` holds of it
RotationRule(seg, angled) ==
    IF ~(Abs(Dy(seg)) < Abs(Dx(seg))) /\ angled
    THEN [rotated |-> TRUE, dy |-> Dy(seg), dx |-> Dx(seg)]
    ELSE NoRotation

(* C8, as claimed: a wall that is not horizontal is rotated by             *)
(* atan2(dy, dx) - pi/2 exactly when |dx| >= 1e-6 m; a horizontal wall is  *)
(* never rotated.                                                          *)
C8_RotatedFromEpsilon ==
    Passed("interior") =>
        \A i \in 1..Len(plan.interior_walls) :
            LET seg == plan.interior_walls[i]
            IN  \E o \in Emitted("InteriorWall", i) :
                    o.rotation = RotationRule(seg, Abs(Dx(seg)) * 1000 >= 1)

(* C8, amended: a wall that is not horizontal is rotated by                *)
(* atan2(dy, dx) - pi/2 exactly when |dx| >= 0.01 m; with |dx| < 0.01 m it *)
(* is not rotated; a horizontal wall is never rotated.                     *)
C8_RotatedFromTolerance ==
    Passed("interior") =>
        \A i \in 1..Len(plan.interior_walls) :
            LET seg == plan.interior_walls[i]
            IN  \E o \in Emitted("InteriorWall", i) :
                    o.rotation = RotationRule(seg, Abs(Dx(seg)) >= 10)

\* walls that are not horizontal have been built with 0 < |dx| < 0.01 m,
\* with |dx| = 0.01 m and with |dx| = 0
C8_Witness ==
    /\ Passed("interior")
    /\ \E i \in 1..Len(plan.interior_walls) :
           LET seg == plan.interior_walls[i]
           IN  /\ ~(Abs(Dy(seg)) < Abs(Dx(seg)))
               /\ Abs(Dx(seg)) > 0 /\ Abs(Dx(seg)) < 10
               /\ \E o \in Emitted("InteriorWall", i) : o.rotation = NoRotation

(* C9: every object the script has created and moved is linked to the      *)
(* FloorPlan collection, whatever the active collection is.                *)
C9_InFloorPlan ==
    \A o \in CreatedObjects : "FloorPlan" \in o.collections

(* C10: the floor has extents (width, depth) and centre (width/2, depth/2, *)
(* 0), so that it spans [0, width] x [0, depth], and the centre of every   *)
(* wall, opening and piece of furniture lies over it.                      *)
C10_FloorUnderPlan ==
    Passed("floor") =>
        \E f \in Emitted("Floor", 1) :
            /\ f.extents[1] = plan.width /\ f.extents[2] = plan.depth
            /\ f.location = <<plan.width \div 2, plan.depth \div 2, 0>>
            /\ \A o \in CreatedObjects :
                   o.kind \in {"Wall", "InteriorWall", "Window", "Door", "Furniture"} =>
                       /\ 2 * Abs(o.location[1] - f.location[1]) <= f.extents[1]
                       /\ 2 * Abs(o.location[2] - f.location[2]) <= f.extents[2]

====
